---- MODULE Spec2Model ----
(***************************************************************************)
(* Unit-of-Work registry of the datamapper package.                        *)
(*                                                                         *)
(* The registry (type UnitOfWork) holds three Go maps from entity ID to    *)
(* entity reference: newObjects, dirtyObjects and deletedObjects.  It is   *)
(* mutated only by RegisterNew, RegisterDirty and RegisterDeleted.         *)
(*                                                                         *)
(* A Go map is a function whose DOMAIN is its key set.  An entity is a     *)
(* pointer to a stub object: the record [addr, id], where addr tells two   *)
(* objects with the same ID apart and id is what GetID() returns.  An      *)
(* error value is its message; the nil error is Nil.                       *)
(***************************************************************************)
EXTENDS Naturals, Sequences, FiniteSets, TLC

VARIABLES newObjects, dirtyObjects, deletedObjects, lastOp, lastEntity, lastErr,
          inlineUnit, inlineErr, modelUnit, modelErr,
          pc, arg, overlapped, crashed, lastRegisteredAs

\* A registry of each of the two other variants and the error its last call
\* returned; they are used only where the variants run side by side.
variantVars == <<inlineUnit, inlineErr, modelUnit, modelErr>>

\* Two callers that share one registry without synchronisation: the
\* statement each is at (pc), the entity it passed (arg), whether a call ever
\* began while another was under way (overlapped), and whether the Go
\* runtime stopped the process (crashed).  They are used only where calls
\* interleave.
concurrentVars == <<pc, arg, overlapped, crashed>>

\* lastRegisteredAs is the category name passed when the last call was a
\* direct call of assertEntityNotRegisteredAs, "" when it was not.
vars == <<newObjects, dirtyObjects, deletedObjects, lastOp, lastEntity, lastErr,
          variantVars, concurrentVars, lastRegisteredAs>>

\* Number of distinct non-empty IDs the callers use.
MaxIds == 2

\* Number of distinct entity objects per ID.
MaxObjects == 2

\* The two callers (goroutines) of the runs in which calls interleave.
Callers == {"caller1", "caller2"}

\* The IDs GetID() can return: the empty string and "1" .. "MaxIds".
IDs == {""} \cup {ToString(n) : n \in 1..MaxIds}

\* The entity objects the callers hold.
Entities == [addr : 1..MaxObjects, id : IDs]

\* Entity.GetID()
GetID(entity) == entity.id

\* The nil error.
Nil == "<nil>"

\* The empty Go map, make(map[string]Entity).
EmptyMap == [k \in {} |-> [addr |-> 1, id |-> ""]]

\* _, ok := m[k]
HasKey(m, k) == k \in DOMAIN m

\* m[k] = v
MapSet(m, k, v) == [x \in (DOMAIN m) \cup {k} |-> IF x = k THEN v ELSE m[x]]

\* delete(m, k)
MapDelete(m, k) == [x \in (DOMAIN m) \ {k} |-> m[x]]

\* Mutation: the constructor hands out a deleted map that still holds an
\* entry of an earlier transaction instead of a fresh one.
NewUnitOfWork_staleMap ==
    [newObjects |-> EmptyMap, dirtyObjects |-> EmptyMap,
     deletedObjects |-> MapSet(EmptyMap, "1", [addr |-> 1, id |-> "1"])]

\* NewUnitOfWork(): the registry value with three empty maps.
NewUnitOfWork ==
    [newObjects |-> EmptyMap, dirtyObjects |-> EmptyMap, deletedObjects |-> EmptyMap]

\* errors.Errorf("Registering entity failed: entity has no ID: %+v", entity)
ErrNoID(entity) ==
    "Registering entity failed: entity has no ID: &{id:" \o GetID(entity) \o "}"

\* errors.Errorf("... entity with ID \"%s\" is already registered as %s", id, registeredAs)
ErrAlreadyRegistered(id, registeredAs) ==
    "Registering entity failed: entity with ID \"" \o id
        \o "\" is already registered as " \o registeredAs

\* panic(fmt.Sprintf("unknown registry for state of persistence: \"%s\"", registeredAs))
PanicUnknownRegistry(registeredAs) ==
    "panic: unknown registry for state of persistence: \"" \o registeredAs \o "\""

\* Mutation: the ID check accepts every entity.
assertEntityHasID_accepts(entity) == Nil

\* unit.assertEntityHasID(entity)
assertEntityHasID(entity) ==
    IF GetID(entity) = "" THEN ErrNoID(entity) ELSE Nil

\* The result of a method of the registry: the registry afterwards and the
\* returned error.
Return(unit, err) == [unit |-> unit, err |-> err]

\* Mutation: the "dirty" and "deleted" cases of the switch look at each
\* other's map.
assertEntityNotRegisteredAs_swapped(unit, entity, registeredAs) ==
    IF registeredAs \notin {"dirty", "deleted", "new"}
    THEN PanicUnknownRegistry(registeredAs)
    ELSE LET registry == CASE registeredAs = "dirty" -> unit.deletedObjects
                           [] registeredAs = "deleted" -> unit.dirtyObjects
                           [] registeredAs = "new" -> unit.newObjects
         IN IF HasKey(registry, GetID(entity))
            THEN ErrAlreadyRegistered(GetID(entity), registeredAs)
            ELSE Nil

\* Mutation: the switch has no default case, so an unknown name leaves the
\* registry nil, the lookup finds nothing and the helper returns nil.
assertEntityNotRegisteredAs_noDefault(unit, entity, registeredAs) ==
    IF registeredAs \notin {"dirty", "deleted", "new"}
    THEN Nil
    ELSE LET registry == CASE registeredAs = "dirty" -> unit.dirtyObjects
                           [] registeredAs = "deleted" -> unit.deletedObjects
                           [] registeredAs = "new" -> unit.newObjects
         IN IF HasKey(registry, GetID(entity))
            THEN ErrAlreadyRegistered(GetID(entity), registeredAs)
            ELSE Nil

\* unit.assertEntityNotRegisteredAs(entity, registeredAs): the switch picks
\* the map, the default case panics, a present key is an error.
assertEntityNotRegisteredAs(unit, entity, registeredAs) ==
    IF registeredAs \notin {"dirty", "deleted", "new"}
    THEN PanicUnknownRegistry(registeredAs)
    ELSE LET registry == CASE registeredAs = "dirty" -> unit.dirtyObjects
                           [] registeredAs = "deleted" -> unit.deletedObjects
                           [] registeredAs = "new" -> unit.newObjects
         IN IF HasKey(registry, GetID(entity))
            THEN ErrAlreadyRegistered(GetID(entity), registeredAs)
            ELSE Nil

\* Mutation: RegisterNew without the "must not be dirty" check.
RegisterNew_noDirtyCheck(unit, entity) ==
    IF assertEntityHasID(entity) # Nil
    THEN Return(unit, assertEntityHasID(entity))
    ELSE IF assertEntityNotRegisteredAs(unit, entity, "deleted") # Nil
    THEN Return(unit, assertEntityNotRegisteredAs(unit, entity, "deleted"))
    ELSE IF assertEntityNotRegisteredAs(unit, entity, "new") # Nil
    THEN Return(unit, assertEntityNotRegisteredAs(unit, entity, "new"))
    ELSE Return([unit EXCEPT !.newObjects = MapSet(@, GetID(entity), entity)], Nil)

\* Mutation: RegisterNew without the "must not be slated for deletion" check.
RegisterNew_noDeletedCheck(unit, entity) ==
    IF assertEntityHasID(entity) # Nil
    THEN Return(unit, assertEntityHasID(entity))
    ELSE IF assertEntityNotRegisteredAs(unit, entity, "dirty") # Nil
    THEN Return(unit, assertEntityNotRegisteredAs(unit, entity, "dirty"))
    ELSE IF assertEntityNotRegisteredAs(unit, entity, "new") # Nil
    THEN Return(unit, assertEntityNotRegisteredAs(unit, entity, "new"))
    ELSE Return([unit EXCEPT !.newObjects = MapSet(@, GetID(entity), entity)], Nil)

\* unit.RegisterNew(entity): four checks in the order of the code, each
\* returning its error, then the insertion into newObjects.
RegisterNew(unit, entity) ==
    IF assertEntityHasID(entity) # Nil
    THEN Return(unit, assertEntityHasID(entity))
    ELSE IF assertEntityNotRegisteredAs(unit, entity, "dirty") # Nil
    THEN Return(unit, assertEntityNotRegisteredAs(unit, entity, "dirty"))
    ELSE IF assertEntityNotRegisteredAs(unit, entity, "deleted") # Nil
    THEN Return(unit, assertEntityNotRegisteredAs(unit, entity, "deleted"))
    ELSE IF assertEntityNotRegisteredAs(unit, entity, "new") # Nil
    THEN Return(unit, assertEntityNotRegisteredAs(unit, entity, "new"))
    ELSE Return([unit EXCEPT !.newObjects = MapSet(@, GetID(entity), entity)], Nil)

\* Mutation: RegisterDirty inserts into dirtyObjects whether or not the ID
\* is in newObjects.
RegisterDirty_noNewCheck(unit, entity) ==
    IF assertEntityHasID(entity) # Nil
    THEN Return(unit, assertEntityHasID(entity))
    ELSE IF assertEntityNotRegisteredAs(unit, entity, "deleted") # Nil
    THEN Return(unit, assertEntityNotRegisteredAs(unit, entity, "deleted"))
    ELSE Return([unit EXCEPT !.dirtyObjects = MapSet(@, GetID(entity), entity)], Nil)

\* Mutation: RegisterDirty inserts into dirtyObjects before it checks the
\* deleted map.
RegisterDirty_insertFirst(unit, entity) ==
    IF assertEntityHasID(entity) # Nil
    THEN Return(unit, assertEntityHasID(entity))
    ELSE LET inserted ==
                 IF ~HasKey(unit.newObjects, GetID(entity))
                 THEN [unit EXCEPT !.dirtyObjects = MapSet(@, GetID(entity), entity)]
                 ELSE unit
         IN Return(inserted, assertEntityNotRegisteredAs(unit, entity, "deleted"))

\* Mutation: when the ID is in newObjects, RegisterDirty stores the passed
\* entity there.
RegisterDirty_overwritesNew(unit, entity) ==
    IF assertEntityHasID(entity) # Nil
    THEN Return(unit, assertEntityHasID(entity))
    ELSE IF assertEntityNotRegisteredAs(unit, entity, "deleted") # Nil
    THEN Return(unit, assertEntityNotRegisteredAs(unit, entity, "deleted"))
    ELSE IF ~HasKey(unit.newObjects, GetID(entity))
    THEN Return([unit EXCEPT !.dirtyObjects = MapSet(@, GetID(entity), entity)], Nil)
    ELSE Return([unit EXCEPT !.newObjects = MapSet(@, GetID(entity), entity)], Nil)

\* Mutation: RegisterDirty also requires the ID not to be dirty already.
RegisterDirty_rejectsDirty(unit, entity) ==
    IF assertEntityHasID(entity) # Nil
    THEN Return(unit, assertEntityHasID(entity))
    ELSE IF assertEntityNotRegisteredAs(unit, entity, "deleted") # Nil
    THEN Return(unit, assertEntityNotRegisteredAs(unit, entity, "deleted"))
    ELSE IF assertEntityNotRegisteredAs(unit, entity, "dirty") # Nil
    THEN Return(unit, assertEntityNotRegisteredAs(unit, entity, "dirty"))
    ELSE IF ~HasKey(unit.newObjects, GetID(entity))
    THEN Return([unit EXCEPT !.dirtyObjects = MapSet(@, GetID(entity), entity)], Nil)
    ELSE Return(unit, Nil)

\* Mutation: RegisterDirty keeps the entity already stored in dirtyObjects.
RegisterDirty_keepsOld(unit, entity) ==
    IF assertEntityHasID(entity) # Nil
    THEN Return(unit, assertEntityHasID(entity))
    ELSE IF assertEntityNotRegisteredAs(unit, entity, "deleted") # Nil
    THEN Return(unit, assertEntityNotRegisteredAs(unit, entity, "deleted"))
    ELSE IF ~HasKey(unit.newObjects, GetID(entity))
            /\ ~HasKey(unit.dirtyObjects, GetID(entity))
    THEN Return([unit EXCEPT !.dirtyObjects = MapSet(@, GetID(entity), entity)], Nil)
    ELSE Return(unit, Nil)

\* unit.RegisterDirty(entity): the ID check, the "deleted" check, then the
\* insertion into dirtyObjects unless the ID is a key of newObjects.
RegisterDirty(unit, entity) ==
    IF assertEntityHasID(entity) # Nil
    THEN Return(unit, assertEntityHasID(entity))
    ELSE IF assertEntityNotRegisteredAs(unit, entity, "deleted") # Nil
    THEN Return(unit, assertEntityNotRegisteredAs(unit, entity, "deleted"))
    ELSE LET entityIsAlreadyDirty == HasKey(unit.newObjects, GetID(entity))
         IN IF ~entityIsAlreadyDirty
            THEN Return([unit EXCEPT !.dirtyObjects = MapSet(@, GetID(entity), entity)], Nil)
            ELSE Return(unit, Nil)

\* Mutation: RegisterDeleted does not remove the ID from dirtyObjects.
RegisterDeleted_keepsDirty(unit, entity) ==
    IF assertEntityHasID(entity) # Nil
    THEN Return(unit, assertEntityHasID(entity))
    ELSE IF HasKey(unit.newObjects, GetID(entity))
    THEN Return([unit EXCEPT !.newObjects = MapDelete(@, GetID(entity))], Nil)
    ELSE IF ~HasKey(unit.deletedObjects, GetID(entity))
    THEN Return([unit EXCEPT !.deletedObjects = MapSet(@, GetID(entity), entity)], Nil)
    ELSE Return(unit, Nil)

\* Mutation: RegisterDeleted moves an ID of newObjects to deletedObjects.
RegisterDeleted_movesNew(unit, entity) ==
    IF assertEntityHasID(entity) # Nil
    THEN Return(unit, assertEntityHasID(entity))
    ELSE LET removed == [unit EXCEPT !.newObjects = MapDelete(@, GetID(entity)),
                                     !.dirtyObjects = MapDelete(@, GetID(entity))]
         IN IF ~HasKey(unit.deletedObjects, GetID(entity))
            THEN Return([removed EXCEPT !.deletedObjects =
                                            MapSet(@, GetID(entity), entity)], Nil)
            ELSE Return(removed, Nil)

\* Mutation: RegisterDeleted stores the passed entity in deletedObjects
\* whether or not the ID is a key there already.
RegisterDeleted_overwrites(unit, entity) ==
    IF assertEntityHasID(entity) # Nil
    THEN Return(unit, assertEntityHasID(entity))
    ELSE IF HasKey(unit.newObjects, GetID(entity))
    THEN Return([unit EXCEPT !.newObjects = MapDelete(@, GetID(entity))], Nil)
    ELSE Return([unit EXCEPT !.dirtyObjects = MapDelete(@, GetID(entity)),
                             !.deletedObjects = MapSet(@, GetID(entity), entity)], Nil)

\* Mutation: RegisterDeleted requires the ID not to be deleted already.
RegisterDeleted_rejectsDeleted(unit, entity) ==
    IF assertEntityHasID(entity) # Nil
    THEN Return(unit, assertEntityHasID(entity))
    ELSE IF assertEntityNotRegisteredAs(unit, entity, "deleted") # Nil
    THEN Return(unit, assertEntityNotRegisteredAs(unit, entity, "deleted"))
    ELSE IF HasKey(unit.newObjects, GetID(entity))
    THEN Return([unit EXCEPT !.newObjects = MapDelete(@, GetID(entity))], Nil)
    ELSE Return([unit EXCEPT !.dirtyObjects = MapDelete(@, GetID(entity)),
                             !.deletedObjects = MapSet(@, GetID(entity), entity)], Nil)

\* Mutation: RegisterDeleted treats an ID of dirtyObjects as it treats one
\* of newObjects: it removes it and returns.
RegisterDeleted_dirtyLikeNew(unit, entity) ==
    IF assertEntityHasID(entity) # Nil
    THEN Return(unit, assertEntityHasID(entity))
    ELSE IF HasKey(unit.newObjects, GetID(entity))
    THEN Return([unit EXCEPT !.newObjects = MapDelete(@, GetID(entity))], Nil)
    ELSE IF HasKey(unit.dirtyObjects, GetID(entity))
    THEN Return([unit EXCEPT !.dirtyObjects = MapDelete(@, GetID(entity))], Nil)
    ELSE IF ~HasKey(unit.deletedObjects, GetID(entity))
    THEN Return([unit EXCEPT !.deletedObjects = MapSet(@, GetID(entity), entity)], Nil)
    ELSE Return(unit, Nil)

\* Mutation: RegisterDeleted empties newObjects instead of deleting one key.
RegisterDeleted_clearsNew(unit, entity) ==
    IF assertEntityHasID(entity) # Nil
    THEN Return(unit, assertEntityHasID(entity))
    ELSE IF HasKey(unit.newObjects, GetID(entity))
    THEN Return([unit EXCEPT !.newObjects = EmptyMap], Nil)
    ELSE LET removed == [unit EXCEPT !.dirtyObjects = MapDelete(@, GetID(entity))]
         IN IF ~HasKey(unit.deletedObjects, GetID(entity))
            THEN Return([removed EXCEPT !.deletedObjects =
                                            MapSet(@, GetID(entity), entity)], Nil)
            ELSE Return(removed, Nil)

\* unit.RegisterDeleted(entity): the ID check; an ID of newObjects is only
\* removed from it; otherwise the ID is removed from dirtyObjects and
\* inserted into deletedObjects unless it is a key there already.
RegisterDeleted(unit, entity) ==
    IF assertEntityHasID(entity) # Nil
    THEN Return(unit, assertEntityHasID(entity))
    ELSE LET entityIsAlreadyNew == HasKey(unit.newObjects, GetID(entity))
         IN IF entityIsAlreadyNew
            THEN Return([unit EXCEPT !.newObjects = MapDelete(@, GetID(entity))], Nil)
            ELSE LET removed == [unit EXCEPT !.dirtyObjects = MapDelete(@, GetID(entity))]
                     entityIsAlreadyDeleted == HasKey(unit.deletedObjects, GetID(entity))
                 IN IF ~entityIsAlreadyDeleted
                    THEN Return([removed EXCEPT !.deletedObjects =
                                                    MapSet(@, GetID(entity), entity)], Nil)
                    ELSE Return(removed, Nil)

(***************************************************************************)
(* The two other variants of the registry in the repository.  Both keep    *)
(* the third map in the field removedObjects and call the method           *)
(* RegisterRemoved.  A registry of either is the record [newObjects,       *)
(* dirtyObjects, removedObjects]; a Model is an entity.                    *)
(***************************************************************************)

\* NewUnitOfWork() of the variant with inline checks.
InlineNewUnitOfWork ==
    [newObjects |-> EmptyMap, dirtyObjects |-> EmptyMap, removedObjects |-> EmptyMap]

\* NewUnitOfWork() of the variant with assertModelNotRegisteredAs.
ModelNewUnitOfWork ==
    [newObjects |-> EmptyMap, dirtyObjects |-> EmptyMap, removedObjects |-> EmptyMap]

\* errors.Errorf("Registering <what> model failed: model has no ID: %+v", model)
\* with <what> "new" in RegisterNew and RegisterDirty, "removed" in
\* RegisterRemoved.
ErrModelNoID(what, model) ==
    "Registering " \o what \o " model failed: model has no ID: &{id:"
        \o GetID(model) \o "}"

\* errors.Errorf("Registering <what> model failed: model with ID \"%s\" is
\* already registered as <registeredAs>", id) of the inline checks.
ErrInlineAlreadyRegistered(what, id, registeredAs) ==
    "Registering " \o what \o " model failed: model with ID \"" \o id
        \o "\" is already registered as " \o registeredAs

\* errors.Errorf("Registering model failed: model with ID \"%s\" is already
\* registered as %s", id, registeredAs) of assertModelNotRegisteredAs.
ErrModelAlreadyRegistered(id, registeredAs) ==
    "Registering model failed: model with ID \"" \o id
        \o "\" is already registered as " \o registeredAs

\* unit.RegisterNew(model) with inline checks: ID, dirty, removed, new.
InlineRegisterNew(unit, model) ==
    IF GetID(model) = ""
    THEN Return(unit, ErrModelNoID("new", model))
    ELSE LET modelIsDirty == HasKey(unit.dirtyObjects, GetID(model))
             modelIsRemoved == HasKey(unit.removedObjects, GetID(model))
             modelIsAlreadyNew == HasKey(unit.newObjects, GetID(model))
         IN IF modelIsDirty
            THEN Return(unit, ErrInlineAlreadyRegistered("new", GetID(model), "dirty"))
            ELSE IF modelIsRemoved
            THEN Return(unit, ErrInlineAlreadyRegistered("new", GetID(model), "removed"))
            ELSE IF modelIsAlreadyNew
            THEN Return(unit, ErrInlineAlreadyRegistered("new", GetID(model), "new"))
            ELSE Return([unit EXCEPT !.newObjects = MapSet(@, GetID(model), model)], Nil)

\* Mutation: the inline RegisterDirty without the "removed" check.
InlineRegisterDirty_noRemovedCheck(unit, model) ==
    IF GetID(model) = ""
    THEN Return(unit, ErrModelNoID("new", model))
    ELSE IF ~HasKey(unit.newObjects, GetID(model))
    THEN Return([unit EXCEPT !.dirtyObjects = MapSet(@, GetID(model), model)], Nil)
    ELSE Return(unit, Nil)

\* unit.RegisterDirty(model) with inline checks: ID, removed, then the
\* insertion into dirtyObjects unless the ID is a key of newObjects.
InlineRegisterDirty(unit, model) ==
    IF GetID(model) = ""
    THEN Return(unit, ErrModelNoID("new", model))
    ELSE LET modelIsRemoved == HasKey(unit.removedObjects, GetID(model))
             modelIsAlreadyDirty == HasKey(unit.newObjects, GetID(model))
         IN IF modelIsRemoved
            THEN Return(unit, ErrInlineAlreadyRegistered("dirty", GetID(model), "removed"))
            ELSE IF ~modelIsAlreadyDirty
            THEN Return([unit EXCEPT !.dirtyObjects = MapSet(@, GetID(model), model)], Nil)
            ELSE Return(unit, Nil)

\* unit.RegisterRemoved(model) of the variant with inline checks.
InlineRegisterRemoved(unit, model) ==
    IF GetID(model) = ""
    THEN Return(unit, ErrModelNoID("removed", model))
    ELSE LET modelIsAlreadyNew == HasKey(unit.newObjects, GetID(model))
         IN IF modelIsAlreadyNew
            THEN Return([unit EXCEPT !.newObjects = MapDelete(@, GetID(model))], Nil)
            ELSE LET removed == [unit EXCEPT !.dirtyObjects = MapDelete(@, GetID(model))]
                     modelIsAlreadyRemoved == HasKey(unit.removedObjects, GetID(model))
                 IN IF ~modelIsAlreadyRemoved
                    THEN Return([removed EXCEPT !.removedObjects =
                                                    MapSet(@, GetID(model), model)], Nil)
                    ELSE Return(removed, Nil)

\* unit.assertModelNotRegisteredAs(model, registeredAs): the switch knows
\* "dirty", "removed" and "new" and panics on anything else.
assertModelNotRegisteredAs(unit, model, registeredAs) ==
    IF registeredAs \notin {"dirty", "removed", "new"}
    THEN PanicUnknownRegistry(registeredAs)
    ELSE LET registry == CASE registeredAs = "dirty" -> unit.dirtyObjects
                           [] registeredAs = "removed" -> unit.removedObjects
                           [] registeredAs = "new" -> unit.newObjects
         IN IF HasKey(registry, GetID(model))
            THEN ErrModelAlreadyRegistered(GetID(model), registeredAs)
            ELSE Nil

\* unit.RegisterNew(model) of the variant with the assert helper.
ModelRegisterNew(unit, model) ==
    IF GetID(model) = ""
    THEN Return(unit, ErrModelNoID("new", model))
    ELSE IF assertModelNotRegisteredAs(unit, model, "dirty") # Nil
    THEN Return(unit, assertModelNotRegisteredAs(unit, model, "dirty"))
    ELSE IF assertModelNotRegisteredAs(unit, model, "removed") # Nil
    THEN Return(unit, assertModelNotRegisteredAs(unit, model, "removed"))
    ELSE IF assertModelNotRegisteredAs(unit, model, "new") # Nil
    THEN Return(unit, assertModelNotRegisteredAs(unit, model, "new"))
    ELSE Return([unit EXCEPT !.newObjects = MapSet(@, GetID(model), model)], Nil)

\* unit.RegisterDirty(model) of the variant with the assert helper.
ModelRegisterDirty(unit, model) ==
    IF GetID(model) = ""
    THEN Return(unit, ErrModelNoID("new", model))
    ELSE IF assertModelNotRegisteredAs(unit, model, "removed") # Nil
    THEN Return(unit, assertModelNotRegisteredAs(unit, model, "removed"))
    ELSE LET modelIsAlreadyDirty == HasKey(unit.newObjects, GetID(model))
         IN IF ~modelIsAlreadyDirty
            THEN Return([unit EXCEPT !.dirtyObjects = MapSet(@, GetID(model), model)], Nil)
            ELSE Return(unit, Nil)

\* unit.RegisterRemoved(model) of the variant with the assert helper.
ModelRegisterRemoved(unit, model) ==
    IF GetID(model) = ""
    THEN Return(unit, ErrModelNoID("removed", model))
    ELSE LET modelIsAlreadyNew == HasKey(unit.newObjects, GetID(model))
         IN IF modelIsAlreadyNew
            THEN Return([unit EXCEPT !.newObjects = MapDelete(@, GetID(model))], Nil)
            ELSE LET removed == [unit EXCEPT !.dirtyObjects = MapDelete(@, GetID(model))]
                     modelIsAlreadyRemoved == HasKey(unit.removedObjects, GetID(model))
                 IN IF ~modelIsAlreadyRemoved
                    THEN Return([removed EXCEPT !.removedObjects =
                                                    MapSet(@, GetID(model), model)], Nil)
                    ELSE Return(removed, Nil)

\* The registry the callers share: the three maps of the UnitOfWork struct.
theUnit ==
    [newObjects |-> newObjects, dirtyObjects |-> dirtyObjects,
     deletedObjects |-> deletedObjects]

\* u := NewUnitOfWork(); no method called yet.
Init ==
    /\ newObjects = NewUnitOfWork.newObjects
    /\ dirtyObjects = NewUnitOfWork.dirtyObjects
    /\ deletedObjects = NewUnitOfWork.deletedObjects
    /\ lastOp = "none"
    /\ lastEntity = [addr |-> 1, id |-> ""]
    /\ lastErr = Nil
    /\ inlineUnit = InlineNewUnitOfWork
    /\ inlineErr = Nil
    /\ modelUnit = ModelNewUnitOfWork
    /\ modelErr = Nil
    /\ pc = [c \in Callers |-> "idle"]
    /\ arg = [c \in Callers |-> [addr |-> 1, id |-> ""]]
    /\ overlapped = FALSE
    /\ crashed = FALSE
    /\ lastRegisteredAs = ""

\* err := u.RegisterNew(entity), by a caller with any of its entities: the
\* registry becomes the one the method leaves; the call, its argument and
\* the returned error are recorded.
CallRegisterNew ==
    \E entity \in Entities :
        LET result == RegisterNew(theUnit, entity)
        IN /\ newObjects' = result.unit.newObjects
           /\ dirtyObjects' = result.unit.dirtyObjects
           /\ deletedObjects' = result.unit.deletedObjects
           /\ lastOp' = "RegisterNew"
           /\ lastEntity' = entity
           /\ lastErr' = result.err
           /\ lastRegisteredAs' = ""
           /\ UNCHANGED <<variantVars, concurrentVars>>

\* err := u.RegisterDirty(entity)
CallRegisterDirty ==
    \E entity \in Entities :
        LET result == RegisterDirty(theUnit, entity)
        IN /\ newObjects' = result.unit.newObjects
           /\ dirtyObjects' = result.unit.dirtyObjects
           /\ deletedObjects' = result.unit.deletedObjects
           /\ lastOp' = "RegisterDirty"
           /\ lastEntity' = entity
           /\ lastErr' = result.err
           /\ lastRegisteredAs' = ""
           /\ UNCHANGED <<variantVars, concurrentVars>>

\* err := u.RegisterDeleted(entity)
CallRegisterDeleted ==
    \E entity \in Entities :
        LET result == RegisterDeleted(theUnit, entity)
        IN /\ newObjects' = result.unit.newObjects
           /\ dirtyObjects' = result.unit.dirtyObjects
           /\ deletedObjects' = result.unit.deletedObjects
           /\ lastOp' = "RegisterDeleted"
           /\ lastEntity' = entity
           /\ lastErr' = result.err
           /\ lastRegisteredAs' = ""
           /\ UNCHANGED <<variantVars, concurrentVars>>

Next ==
    \/ CallRegisterNew
    \/ CallRegisterDirty
    \/ CallRegisterDeleted

Spec == Init /\ [][Next]_vars

\* The three variants side by side: each call is made with the same entity
\* on the registry of each variant, RegisterRemoved standing for
\* RegisterDeleted in the two variants that name it so.
SideBySideRegisterNew ==
    \E entity \in Entities :
        LET result == RegisterNew(theUnit, entity)
            inline == InlineRegisterNew(inlineUnit, entity)
            model == ModelRegisterNew(modelUnit, entity)
        IN /\ newObjects' = result.unit.newObjects
           /\ dirtyObjects' = result.unit.dirtyObjects
           /\ deletedObjects' = result.unit.deletedObjects
           /\ lastOp' = "RegisterNew"
           /\ lastEntity' = entity
           /\ lastErr' = result.err
           /\ inlineUnit' = inline.unit
           /\ inlineErr' = inline.err
           /\ modelUnit' = model.unit
           /\ modelErr' = model.err
           /\ UNCHANGED <<concurrentVars, lastRegisteredAs>>

SideBySideRegisterDirty ==
    \E entity \in Entities :
        LET result == RegisterDirty(theUnit, entity)
            inline == InlineRegisterDirty(inlineUnit, entity)
            model == ModelRegisterDirty(modelUnit, entity)
        IN /\ newObjects' = result.unit.newObjects
           /\ dirtyObjects' = result.unit.dirtyObjects
           /\ deletedObjects' = result.unit.deletedObjects
           /\ lastOp' = "RegisterDirty"
           /\ lastEntity' = entity
           /\ lastErr' = result.err
           /\ inlineUnit' = inline.unit
           /\ inlineErr' = inline.err
           /\ modelUnit' = model.unit
           /\ modelErr' = model.err
           /\ UNCHANGED <<concurrentVars, lastRegisteredAs>>

SideBySideRegisterDeleted ==
    \E entity \in Entities :
        LET result == RegisterDeleted(theUnit, entity)
            inline == InlineRegisterRemoved(inlineUnit, entity)
            model == ModelRegisterRemoved(modelUnit, entity)
        IN /\ newObjects' = result.unit.newObjects
           /\ dirtyObjects' = result.unit.dirtyObjects
           /\ deletedObjects' = result.unit.deletedObjects
           /\ lastOp' = "RegisterDeleted"
           /\ lastEntity' = entity
           /\ lastErr' = result.err
           /\ inlineUnit' = inline.unit
           /\ inlineErr' = inline.err
           /\ modelUnit' = model.unit
           /\ modelErr' = model.err
           /\ UNCHANGED <<concurrentVars, lastRegisteredAs>>

NextVariants ==
    \/ SideBySideRegisterNew
    \/ SideBySideRegisterDirty
    \/ SideBySideRegisterDeleted

SpecVariants == Init /\ [][NextVariants]_vars

(***************************************************************************)
(* Calls that interleave.  Two callers call the methods on one registry    *)
(* with no lock.  A step is one statement that reads or writes a map,      *)
(* named by the method and its line in the source; the ID check, which     *)
(* touches no map, is part of the step that begins the call.  The error a  *)
(* call returns goes to its caller and is not kept.  The callers use       *)
(* entities of one shared identity, or of none.                            *)
(***************************************************************************)

\* The identity the two callers register.
SharedID == ToString(1)

\* The entities the two callers pass.
SharedEntities == {entity \in Entities : GetID(entity) \in {"", SharedID}}

\* The outcome of one statement: the registry after it, the statement the
\* caller is at next ("idle" once the method has returned), the error
\* returned if it returns.
Goes(unit, next, err) == [unit |-> unit, next |-> next, err |-> err]

\* Mutation: RegisterDirty goes on to its insertion whatever the lookup in
\* newObjects found.
Statement_dirtyIgnoresNew(unit, at, entity) ==
    LET id == GetID(entity)
        check(registeredAs, next) ==
            IF assertEntityNotRegisteredAs(unit, entity, registeredAs) # Nil
            THEN Goes(unit, "idle", assertEntityNotRegisteredAs(unit, entity, registeredAs))
            ELSE Goes(unit, next, Nil)
    IN CASE at = "new89" -> check("dirty", "new94")
         [] at = "new94" -> check("deleted", "new99")
         [] at = "new99" -> check("new", "new103")
         [] at = "new103" ->
                Goes([unit EXCEPT !.newObjects = MapSet(@, id, entity)], "idle", Nil)
         [] at = "dirty116" -> check("deleted", "dirty120")
         [] at = "dirty120" -> Goes(unit, "dirty122", Nil)
         [] at = "dirty122" ->
                Goes([unit EXCEPT !.dirtyObjects = MapSet(@, id, entity)], "idle", Nil)
         [] at = "deleted137" ->
                IF HasKey(unit.newObjects, id)
                THEN Goes(unit, "deleted139", Nil)
                ELSE Goes(unit, "deleted145", Nil)
         [] at = "deleted139" ->
                Goes([unit EXCEPT !.newObjects = MapDelete(@, id)], "idle", Nil)
         [] at = "deleted145" ->
                Goes([unit EXCEPT !.dirtyObjects = MapDelete(@, id)], "deleted147", Nil)
         [] at = "deleted147" ->
                IF ~HasKey(unit.deletedObjects, id)
                THEN Goes(unit, "deleted149", Nil)
                ELSE Goes(unit, "idle", Nil)
         [] at = "deleted149" ->
                Goes([unit EXCEPT !.deletedObjects = MapSet(@, id, entity)], "idle", Nil)

\* One statement of a method, executed on registry unit for entity:
\*   new89, new94, new99    the three assertEntityNotRegisteredAs of RegisterNew
\*   new103                 unit.newObjects[entity.GetID()] = entity
\*   dirty116               the assertEntityNotRegisteredAs of RegisterDirty
\*   dirty120, dirty122     the lookup in newObjects, the insertion into dirtyObjects
\*   deleted137, deleted139 the lookup in newObjects, delete(unit.newObjects, ...)
\*   deleted145             delete(unit.dirtyObjects, ...)
\*   deleted147, deleted149 the lookup in deletedObjects, the insertion into it
Statement(unit, at, entity) ==
    LET id == GetID(entity)
        check(registeredAs, next) ==
            IF assertEntityNotRegisteredAs(unit, entity, registeredAs) # Nil
            THEN Goes(unit, "idle", assertEntityNotRegisteredAs(unit, entity, registeredAs))
            ELSE Goes(unit, next, Nil)
    IN CASE at = "new89" -> check("dirty", "new94")
         [] at = "new94" -> check("deleted", "new99")
         [] at = "new99" -> check("new", "new103")
         [] at = "new103" ->
                Goes([unit EXCEPT !.newObjects = MapSet(@, id, entity)], "idle", Nil)
         [] at = "dirty116" -> check("deleted", "dirty120")
         [] at = "dirty120" ->
                IF ~HasKey(unit.newObjects, id)
                THEN Goes(unit, "dirty122", Nil)
                ELSE Goes(unit, "idle", Nil)
         [] at = "dirty122" ->
                Goes([unit EXCEPT !.dirtyObjects = MapSet(@, id, entity)], "idle", Nil)
         [] at = "deleted137" ->
                IF HasKey(unit.newObjects, id)
                THEN Goes(unit, "deleted139", Nil)
                ELSE Goes(unit, "deleted145", Nil)
         [] at = "deleted139" ->
                Goes([unit EXCEPT !.newObjects = MapDelete(@, id)], "idle", Nil)
         [] at = "deleted145" ->
                Goes([unit EXCEPT !.dirtyObjects = MapDelete(@, id)], "deleted147", Nil)
         [] at = "deleted147" ->
                IF ~HasKey(unit.deletedObjects, id)
                THEN Goes(unit, "deleted149", Nil)
                ELSE Goes(unit, "idle", Nil)
         [] at = "deleted149" ->
                Goes([unit EXCEPT !.deletedObjects = MapSet(@, id, entity)], "idle", Nil)

\* The map a statement accesses and whether it writes it.
Access(at) ==
    CASE at \in {"new89", "dirty122", "deleted145"} ->
             [registry |-> "dirty", write |-> at # "new89"]
      [] at \in {"new94", "dirty116", "deleted147", "deleted149"} ->
             [registry |-> "deleted", write |-> at = "deleted149"]
      [] at \in {"new99", "new103", "dirty120", "deleted137", "deleted139"} ->
             [registry |-> "new", write |-> at \in {"new103", "deleted139"}]

\* A caller calls method(entity): the ID check is made; with an ID the
\* caller stands before the method's first map access, without one the
\* method has returned its error.
Begins(c, first, entity) ==
    /\ ~crashed
    /\ pc[c] = "idle"
    /\ pc' = [pc EXCEPT ![c] = IF assertEntityHasID(entity) # Nil THEN "idle" ELSE first]
    /\ arg' = [arg EXCEPT ![c] = entity]
    /\ overlapped' = (overlapped \/ \E other \in Callers \ {c} : pc[other] # "idle")
    /\ UNCHANGED <<newObjects, dirtyObjects, deletedObjects, crashed>>

\* A caller executes the statement it is at.
Executes(c) ==
    LET outcome == Statement(theUnit, pc[c], arg[c])
    IN /\ ~crashed
       /\ newObjects' = outcome.unit.newObjects
       /\ dirtyObjects' = outcome.unit.dirtyObjects
       /\ deletedObjects' = outcome.unit.deletedObjects
       /\ pc' = [pc EXCEPT ![c] = outcome.next]
       /\ UNCHANGED <<arg, overlapped, crashed>>

\* go u.RegisterNew(entity)
BeginRegisterNew ==
    \E c \in Callers, entity \in SharedEntities :
        /\ Begins(c, "new89", entity)
        /\ UNCHANGED <<lastOp, lastEntity, lastErr, variantVars, lastRegisteredAs>>

\* go u.RegisterDirty(entity)
BeginRegisterDirty ==
    \E c \in Callers, entity \in SharedEntities :
        /\ Begins(c, "dirty116", entity)
        /\ UNCHANGED <<lastOp, lastEntity, lastErr, variantVars, lastRegisteredAs>>

\* go u.RegisterDeleted(entity)
BeginRegisterDeleted ==
    \E c \in Callers, entity \in SharedEntities :
        /\ Begins(c, "deleted137", entity)
        /\ UNCHANGED <<lastOp, lastEntity, lastErr, variantVars, lastRegisteredAs>>

\* The next statement of a RegisterNew under way.
StepRegisterNew ==
    \E c \in Callers :
        /\ pc[c] \in {"new89", "new94", "new99", "new103"}
        /\ Executes(c)
        /\ UNCHANGED <<lastOp, lastEntity, lastErr, variantVars, lastRegisteredAs>>

\* The next statement of a RegisterDirty under way.
StepRegisterDirty ==
    \E c \in Callers :
        /\ pc[c] \in {"dirty116", "dirty120", "dirty122"}
        /\ Executes(c)
        /\ UNCHANGED <<lastOp, lastEntity, lastErr, variantVars, lastRegisteredAs>>

\* The next statement of a RegisterDeleted under way.
StepRegisterDeleted ==
    \E c \in Callers :
        /\ pc[c] \in {"deleted137", "deleted139", "deleted145", "deleted147", "deleted149"}
        /\ Executes(c)
        /\ UNCHANGED <<lastOp, lastEntity, lastErr, variantVars, lastRegisteredAs>>

\* Two callers are at accesses of the same map and one of them writes it:
\* the accesses may overlap, and the Go runtime may then stop the process
\* ("fatal error: concurrent map writes" / "concurrent map read and map
\* write") instead of performing them in one order or the other.
FatalConcurrentMapAccess ==
    /\ ~crashed
    /\ \E c1, c2 \in Callers :
           /\ c1 # c2
           /\ pc[c1] # "idle"
           /\ pc[c2] # "idle"
           /\ Access(pc[c1]).registry = Access(pc[c2]).registry
           /\ Access(pc[c1]).write
    /\ crashed' = TRUE
    /\ UNCHANGED <<newObjects, dirtyObjects, deletedObjects, pc, arg, overlapped,
                   lastOp, lastEntity, lastErr, variantVars, lastRegisteredAs>>

NextConcurrent ==
    \/ BeginRegisterNew
    \/ BeginRegisterDirty
    \/ BeginRegisterDeleted
    \/ StepRegisterNew
    \/ StepRegisterDirty
    \/ StepRegisterDeleted
    \/ FatalConcurrentMapAccess

SpecConcurrent == Init /\ [][NextConcurrent]_vars

(***************************************************************************)
(* The validation helper called directly, as the package's own test does.  *)
(***************************************************************************)

\* The category names passed to the helper: the three it knows, the name
\* the other variants use, and the unknown name of the test.
RegistryNames == {"new", "dirty", "deleted", "removed", "some-state"}

\* A direct call unit.assertEntityNotRegisteredAs(entity, registeredAs) and
\* its effect on the receiver: the body only reads the maps, so the
\* registry is the one it was called on; the result is the returned error
\* or the panic.
assertEntityNotRegisteredAsCall(unit, entity, registeredAs) ==
    Return(unit, assertEntityNotRegisteredAs(unit, entity, registeredAs))

\* _ = u.assertEntityNotRegisteredAs(m, registeredAs); a panic is recovered
\* by the caller, as in the test.
CallAssertEntityNotRegisteredAs ==
    \E entity \in Entities, registeredAs \in RegistryNames :
        LET result == assertEntityNotRegisteredAsCall(theUnit, entity, registeredAs)
        IN /\ newObjects' = result.unit.newObjects
           /\ dirtyObjects' = result.unit.dirtyObjects
           /\ deletedObjects' = result.unit.deletedObjects
           /\ lastOp' = "assertEntityNotRegisteredAs"
           /\ lastEntity' = entity
           /\ lastErr' = result.err
           /\ lastRegisteredAs' = registeredAs
           /\ UNCHANGED <<variantVars, concurrentVars>>

NextHelper ==
    \/ CallRegisterNew
    \/ CallRegisterDirty
    \/ CallRegisterDeleted
    \/ CallAssertEntityNotRegisteredAs

SpecHelper == Init /\ [][NextHelper]_vars

\* The type of the state.
TypeOK ==
    /\ \A m \in {newObjects, dirtyObjects, deletedObjects} :
           /\ DOMAIN m \subseteq IDs
           /\ \A k \in DOMAIN m : m[k] \in Entities
    /\ lastOp \in {"none", "RegisterNew", "RegisterDirty", "RegisterDeleted"}
    /\ lastEntity \in Entities

(***************************************************************************)
(* Vocabulary of the properties.                                           *)
(***************************************************************************)

\* The three mappings, as one value.
maps == <<newObjects, dirtyObjects, deletedObjects>>

\* The categories whose mapping of registry u has id as a key.
RegisteredAs(u, id) ==
    {c \in {"new", "dirty", "deleted"} :
        \/ c = "new" /\ HasKey(u.newObjects, id)
        \/ c = "dirty" /\ HasKey(u.dirtyObjects, id)
        \/ c = "deleted" /\ HasKey(u.deletedObjects, id)}

\* Every key of a mapping of registry u.
Keys(u) == DOMAIN u.newObjects \cup DOMAIN u.dirtyObjects \cup DOMAIN u.deletedObjects

\* The state of id in the diagram of the registry: the category that holds
\* it, "absent" when none does, "torn" when more than one does.
StateOf(u, id) ==
    IF RegisteredAs(u, id) = {} THEN "absent"
    ELSE IF Cardinality(RegisteredAs(u, id)) > 1 THEN "torn"
    ELSE CHOOSE c \in RegisteredAs(u, id) : TRUE

\* The error kinds of the registry.
IsMissingIdentity(err) == \E entity \in Entities : err = ErrNoID(entity)

IsConflictingState(err) ==
    \E id \in IDs, c \in {"new", "dirty", "deleted"} : err = ErrAlreadyRegistered(id, c)

\* C1: in every reachable state each entity identity is a key of at most one
\* of the mappings new, dirty and deleted.
C1_AtMostOneMapping ==
    \A id \in Keys(theUnit) \cup IDs : Cardinality(RegisteredAs(theUnit, id)) <= 1

\* C1: all three mappings hold an entry or two at once, after a failed call.
C1_Witness ==
    /\ lastErr # Nil
    /\ \E i \in DOMAIN newObjects, j \in DOMAIN deletedObjects : i # j
    /\ Cardinality(Keys(theUnit)) = MaxIds

\* C2 as stated: after a registration that returns success, the entity's
\* identity is in exactly one of the three mappings.
C2_ExactlyOneAfterSuccess ==
    (lastOp # "none" /\ lastErr = Nil)
        => Cardinality(RegisteredAs(theUnit, GetID(lastEntity))) = 1

\* C2 as amended: after a registration that returns success the entity's
\* identity is in exactly one of the three mappings, except after a
\* RegisterDeleted of an identity that was in the new mapping, after which
\* it is in none.
C2_ExactlyOneUnlessNewDeletedStep ==
    lastErr' = Nil =>
        IF lastOp' = "RegisterDeleted" /\ HasKey(newObjects, GetID(lastEntity'))
        THEN RegisteredAs(theUnit', GetID(lastEntity')) = {}
        ELSE Cardinality(RegisteredAs(theUnit', GetID(lastEntity'))) = 1

C2_ExactlyOneUnlessNewDeleted == [][C2_ExactlyOneUnlessNewDeletedStep]_vars

\* C2: a successful RegisterDeleted has left the identity in deleted only.
C2_Witness ==
    /\ lastOp = "RegisterDeleted"
    /\ lastErr = Nil
    /\ RegisteredAs(theUnit, GetID(lastEntity)) = {"deleted"}

\* C3: a registration that returns an error (MissingIdentity or
\* ConflictingState) leaves all three mappings exactly as they were.
C3_ErrorLeavesMappingsStep ==
    lastErr' # Nil =>
        /\ IsMissingIdentity(lastErr') \/ IsConflictingState(lastErr')
        /\ maps' = maps

C3_ErrorLeavesMappings == [][C3_ErrorLeavesMappingsStep]_vars

\* C3: RegisterNew was rejected for a dirty identity, the mappings not empty.
C3_Witness ==
    /\ lastOp = "RegisterNew"
    /\ lastErr = ErrAlreadyRegistered(GetID(lastEntity), "dirty")
    /\ HasKey(dirtyObjects, GetID(lastEntity))

\* C4: with an entity whose identity is the empty string, every
\* registration fails with MissingIdentity and leaves the mappings unchanged.
C4_EmptyIdentityStep ==
    GetID(lastEntity') = "" =>
        /\ lastErr' = ErrNoID(lastEntity')
        /\ IsMissingIdentity(lastErr')
        /\ ~IsConflictingState(lastErr')
        /\ lastErr' # Nil
        /\ maps' = maps

C4_EmptyIdentity == [][C4_EmptyIdentityStep]_vars

\* C4: RegisterDeleted was called with an empty identity on a registry that
\* holds entries.
C4_Witness ==
    /\ lastOp = "RegisterDeleted"
    /\ GetID(lastEntity) = ""
    /\ IsMissingIdentity(lastErr)
    /\ Keys(theUnit) # {}

\* The arrows drawn in the state diagram of the registry:
\* <<state before, operation, state after>>.
Diagram ==
    {<<"absent", "RegisterNew", "new">>,
     <<"new", "RegisterDeleted", "absent">>,
     <<"new", "RegisterDirty", "new">>,
     <<"absent", "RegisterDirty", "dirty">>,
     <<"dirty", "RegisterDirty", "dirty">>,
     <<"dirty", "RegisterDeleted", "deleted">>}

\* The two arrows of RegisterDeleted that the diagram does not draw.
DeletedArrows ==
    {<<"absent", "RegisterDeleted", "deleted">>,
     <<"deleted", "RegisterDeleted", "deleted">>}

\* A call on a non-empty identity follows the arrows of the set: from a
\* state the set draws the operation from, it succeeds and ends where an
\* arrow leads; from any other state it is rejected with ConflictingState
\* and the identity stays where it was.
FollowsStep(arrows) ==
    LET id == GetID(lastEntity')
        before == StateOf(theUnit, id)
        after == StateOf(theUnit', id)
    IN id # "" =>
           IF \E t \in arrows : t[1] = before /\ t[2] = lastOp'
           THEN lastErr' = Nil /\ <<before, lastOp', after>> \in arrows
           ELSE IsConflictingState(lastErr') /\ after = before

\* C5 as stated: per identity the registry follows the drawn diagram, and
\* every (state, operation) pair not drawn is rejected with ConflictingState.
C5_DiagramOnly == [][FollowsStep(Diagram)]_vars

\* C5 as amended: per identity the registry follows the drawn diagram and,
\* besides, RegisterDeleted succeeds from absent and from deleted and leaves
\* the identity deleted; every other pair is rejected with ConflictingState.
C5_DiagramWithDeleted == [][FollowsStep(Diagram \cup DeletedArrows)]_vars

\* C5: RegisterDeleted has taken an identity from new to absent while
\* another identity is deleted.
C5_Witness ==
    /\ lastOp = "RegisterDeleted"
    /\ lastErr = Nil
    /\ GetID(lastEntity) # ""
    /\ StateOf(theUnit, GetID(lastEntity)) = "absent"
    /\ DOMAIN deletedObjects # {}

\* C6: RegisterNew of a non-empty identity fails with ConflictingState
\* exactly when the identity is a key of dirty, deleted or new, whatever
\* object holds it, the error naming that category; otherwise it succeeds.
C6_RegisterNewConflictStep ==
    LET id == GetID(lastEntity')
    IN (lastOp' = "RegisterNew" /\ id # "") =>
           /\ HasKey(dirtyObjects, id) => lastErr' = ErrAlreadyRegistered(id, "dirty")
           /\ HasKey(deletedObjects, id) => lastErr' = ErrAlreadyRegistered(id, "deleted")
           /\ HasKey(newObjects, id) => lastErr' = ErrAlreadyRegistered(id, "new")
           /\ RegisteredAs(theUnit, id) = {} => lastErr' = Nil
           /\ IsConflictingState(lastErr') <=> RegisteredAs(theUnit, id) # {}

C6_RegisterNewConflict == [][C6_RegisterNewConflictStep]_vars

\* C6: RegisterNew was rejected as "already registered as new" for an
\* identity that another object holds in the new mapping.
C6_Witness ==
    /\ lastOp = "RegisterNew"
    /\ lastErr = ErrAlreadyRegistered(GetID(lastEntity), "new")
    /\ HasKey(newObjects, GetID(lastEntity))
    /\ newObjects[GetID(lastEntity)] # lastEntity

\* C7: when RegisterNew(e) succeeds for a non-empty identity, the new
\* mapping holds the reference e under it and dirty and deleted do not
\* contain it.
C7_RegisterNewStores ==
    (lastOp = "RegisterNew" /\ lastErr = Nil /\ GetID(lastEntity) # "") =>
        /\ HasKey(newObjects, GetID(lastEntity))
        /\ newObjects[GetID(lastEntity)] = lastEntity
        /\ ~HasKey(dirtyObjects, GetID(lastEntity))
        /\ ~HasKey(deletedObjects, GetID(lastEntity))

\* C7: RegisterNew has succeeded while the dirty mapping holds another
\* identity.
C7_Witness ==
    /\ lastOp = "RegisterNew"
    /\ lastErr = Nil
    /\ HasKey(newObjects, GetID(lastEntity))
    /\ DOMAIN dirtyObjects # {}

\* C8: RegisterDirty on an identity of the new mapping returns success and
\* changes no mapping, whichever object is passed and however often.
C8_RegisterDirtyOnNewStep ==
    (lastOp' = "RegisterDirty" /\ HasKey(newObjects, GetID(lastEntity'))) =>
        /\ lastErr' = Nil
        /\ maps' = maps
        /\ RegisteredAs(theUnit', GetID(lastEntity')) = {"new"}

C8_RegisterDirtyOnNew == [][C8_RegisterDirtyOnNewStep]_vars

\* C8: RegisterDirty was called with another object of an identity that is
\* in the new mapping.
C8_Witness ==
    /\ lastOp = "RegisterDirty"
    /\ lastErr = Nil
    /\ HasKey(newObjects, GetID(lastEntity))
    /\ newObjects[GetID(lastEntity)] # lastEntity

\* C9: RegisterDirty of a non-empty identity fails exactly when the identity
\* is in the deleted mapping, with "already registered as deleted", and
\* succeeds in every other state.
C9_RegisterDirtyConflictStep ==
    LET id == GetID(lastEntity')
    IN (lastOp' = "RegisterDirty" /\ id # "") =>
           lastErr' = IF HasKey(deletedObjects, id)
                      THEN ErrAlreadyRegistered(id, "deleted")
                      ELSE Nil

C9_RegisterDirtyConflict == [][C9_RegisterDirtyConflictStep]_vars

\* C9: RegisterDirty was rejected for a deleted identity.
C9_Witness ==
    /\ lastOp = "RegisterDirty"
    /\ lastErr = ErrAlreadyRegistered(GetID(lastEntity), "deleted")
    /\ HasKey(deletedObjects, GetID(lastEntity))

\* C10: RegisterDirty(e) of a non-empty identity that is in neither new nor
\* deleted succeeds and stores e in dirty under that identity, over what was
\* there, with new and deleted unchanged; a second RegisterDirty(e) right
\* after it leaves the registry as the first left it.
C10_RegisterDirtyStoresStep ==
    LET id == GetID(lastEntity')
    IN /\ (/\ lastOp' = "RegisterDirty"
           /\ id # ""
           /\ ~HasKey(newObjects, id)
           /\ ~HasKey(deletedObjects, id)) =>
              /\ lastErr' = Nil
              /\ dirtyObjects' = MapSet(dirtyObjects, id, lastEntity')
              /\ dirtyObjects'[id] = lastEntity'
              /\ newObjects' = newObjects
              /\ deletedObjects' = deletedObjects
       /\ (/\ lastOp = "RegisterDirty"
           /\ lastErr = Nil
           /\ lastOp' = "RegisterDirty"
           /\ lastEntity' = lastEntity) => maps' = maps

C10_RegisterDirtyStores == [][C10_RegisterDirtyStoresStep]_vars

\* C10: RegisterDirty has stored its entity in the dirty mapping.
C10_Witness ==
    /\ lastOp = "RegisterDirty"
    /\ lastErr = Nil
    /\ HasKey(dirtyObjects, GetID(lastEntity))
    /\ dirtyObjects[GetID(lastEntity)] = lastEntity

\* C11: RegisterDeleted on an identity held in the new mapping succeeds,
\* removes it from new and does not add it to deleted: right after the call
\* the identity is in none of the three mappings.
C11_DeleteNewStep ==
    LET id == GetID(lastEntity')
    IN (lastOp' = "RegisterDeleted" /\ HasKey(newObjects, id)) =>
           /\ lastErr' = Nil
           /\ newObjects' = MapDelete(newObjects, id)
           /\ ~HasKey(newObjects', id)
           /\ deletedObjects' = deletedObjects
           /\ ~HasKey(deletedObjects', id)
           /\ RegisteredAs(theUnit', id) = {}

C11_DeleteNew == [][C11_DeleteNewStep]_vars

\* C11: RegisterDeleted has succeeded, with another object of the identity,
\* and left the identity in no mapping and all three mappings empty.
C11_Witness ==
    /\ lastOp = "RegisterDeleted"
    /\ lastErr = Nil
    /\ lastEntity.addr = MaxObjects
    /\ RegisteredAs(theUnit, GetID(lastEntity)) = {}
    /\ Keys(theUnit) = {}

\* C12: RegisterDeleted(e) on a non-empty identity that is dirty or in no
\* mapping succeeds, removes it from dirty and leaves it only in deleted,
\* stored with the reference e.
C12_DeleteDirtyOrAbsentStep ==
    LET id == GetID(lastEntity')
    IN (/\ lastOp' = "RegisterDeleted"
        /\ id # ""
        /\ StateOf(theUnit, id) \in {"dirty", "absent"}) =>
           /\ lastErr' = Nil
           /\ dirtyObjects' = MapDelete(dirtyObjects, id)
           /\ RegisteredAs(theUnit', id) = {"deleted"}
           /\ deletedObjects'[id] = lastEntity'

C12_DeleteDirtyOrAbsent == [][C12_DeleteDirtyOrAbsentStep]_vars

\* C12: RegisterDeleted has stored its entity in the deleted mapping and the
\* dirty mapping is empty.
C12_Witness ==
    /\ lastOp = "RegisterDeleted"
    /\ lastErr = Nil
    /\ HasKey(deletedObjects, GetID(lastEntity))
    /\ deletedObjects[GetID(lastEntity)] = lastEntity
    /\ dirtyObjects = EmptyMap

\* C14: a newly constructed registry has all three mappings empty, so every
\* identity starts absent.
C14_ConstructedEmpty ==
    lastOp = "none" =>
        /\ DOMAIN newObjects = {}
        /\ DOMAIN dirtyObjects = {}
        /\ DOMAIN deletedObjects = {}
        /\ \A id \in IDs : StateOf(theUnit, id) = "absent"

\* C14: the registry as constructed, before any call.
C14_Witness ==
    /\ lastOp = "none"
    /\ theUnit = NewUnitOfWork

\* C15: RegisterDeleted on an identity already in the deleted mapping
\* succeeds and changes nothing: deleted keeps the reference it stored, also
\* when another object of that identity is passed, and new and dirty are
\* unchanged.
C15_DeleteDeletedStep ==
    LET id == GetID(lastEntity')
    IN (lastOp' = "RegisterDeleted" /\ HasKey(deletedObjects, id)) =>
           /\ lastErr' = Nil
           /\ deletedObjects' = deletedObjects
           /\ deletedObjects'[id] = deletedObjects[id]
           /\ newObjects' = newObjects
           /\ dirtyObjects' = dirtyObjects

C15_DeleteDeleted == [][C15_DeleteDeletedStep]_vars

\* C15: RegisterDeleted was called with another object of an identity that
\* the deleted mapping holds.
C15_Witness ==
    /\ lastOp = "RegisterDeleted"
    /\ lastErr = Nil
    /\ HasKey(deletedObjects, GetID(lastEntity))
    /\ deletedObjects[GetID(lastEntity)] # lastEntity

\* C16: deleted is absorbing: an identity that is a key of the deleted
\* mapping stays one through every call, with the same stored reference, and
\* never enters the new or the dirty mapping.
C16_DeletedAbsorbingStep ==
    \A id \in DOMAIN deletedObjects :
        /\ HasKey(deletedObjects', id)
        /\ deletedObjects'[id] = deletedObjects[id]
        /\ ~HasKey(newObjects', id)
        /\ ~HasKey(dirtyObjects', id)

C16_DeletedAbsorbing == [][C16_DeletedAbsorbingStep]_vars

\* C16: RegisterNew was rejected for an identity of the deleted mapping,
\* which still holds it.
C16_Witness ==
    /\ lastOp = "RegisterNew"
    /\ lastErr = ErrAlreadyRegistered(GetID(lastEntity), "deleted")
    /\ HasKey(deletedObjects, GetID(lastEntity))

\* C17: RegisterDeleted never returns ConflictingState: for every entity
\* with a non-empty identity and every reachable state it returns success.
C17_DeleteNeverConflictsStep ==
    (lastOp' = "RegisterDeleted" /\ GetID(lastEntity') # "") =>
        /\ lastErr' = Nil
        /\ ~IsConflictingState(lastErr')

C17_DeleteNeverConflicts ==
    /\ [][C17_DeleteNeverConflictsStep]_vars
    /\ [](\A entity \in Entities :
              GetID(entity) # "" => RegisterDeleted(theUnit, entity).err = Nil)

\* C17: RegisterDeleted has succeeded on a deleted identity while the other
\* mappings hold entries too.
C17_Witness ==
    /\ lastOp = "RegisterDeleted"
    /\ lastErr = Nil
    /\ HasKey(deletedObjects, GetID(lastEntity))
    /\ Keys(theUnit) # DOMAIN deletedObjects

\* The registry after RegisterDeleted(entity) on registry u, and after a
\* second RegisterDeleted(entity) right after it.
DeletedOnce(u, entity) == RegisterDeleted(u, entity).unit

DeletedTwice(u, entity) == RegisterDeleted(DeletedOnce(u, entity), entity).unit

\* C18 as stated: from every reachable state and for every entity e with a
\* non-empty identity, RegisterDeleted(e) twice in succession leaves the
\* mappings as RegisterDeleted(e) once leaves them.
C18_DeleteIdempotent ==
    \A entity \in Entities :
        GetID(entity) # "" => DeletedTwice(theUnit, entity) = DeletedOnce(theUnit, entity)

\* C18 as amended: that holds when the identity of e is not in the new
\* mapping; when it is, the first call only removes it from new and the
\* second call stores e in deleted.
C18_DeleteIdempotentUnlessNew ==
    \A entity \in Entities :
        GetID(entity) # "" =>
            IF HasKey(newObjects, GetID(entity))
            THEN DeletedTwice(theUnit, entity) =
                     [DeletedOnce(theUnit, entity) EXCEPT
                          !.deletedObjects = MapSet(@, GetID(entity), entity)]
            ELSE DeletedTwice(theUnit, entity) = DeletedOnce(theUnit, entity)

\* C18: a second RegisterDeleted(e) has run right after a first one that
\* found the identity dirty or absent, and the identity is deleted.
C18_Witness ==
    /\ lastOp = "RegisterDeleted"
    /\ lastErr = Nil
    /\ HasKey(deletedObjects, GetID(lastEntity))
    /\ deletedObjects[GetID(lastEntity)] = lastEntity
    /\ DeletedOnce(theUnit, lastEntity) = theUnit
    /\ DOMAIN dirtyObjects # {}

\* C19: a call with an entity of identity i, successful or not, leaves the
\* entries of every other identity unchanged in all three mappings.
C19_OtherIdentitiesStep ==
    \A j \in (IDs \cup Keys(theUnit) \cup Keys(theUnit')) \ {GetID(lastEntity')} :
        /\ HasKey(newObjects', j) <=> HasKey(newObjects, j)
        /\ HasKey(dirtyObjects', j) <=> HasKey(dirtyObjects, j)
        /\ HasKey(deletedObjects', j) <=> HasKey(deletedObjects, j)
        /\ HasKey(newObjects, j) => newObjects'[j] = newObjects[j]
        /\ HasKey(dirtyObjects, j) => dirtyObjects'[j] = dirtyObjects[j]
        /\ HasKey(deletedObjects, j) => deletedObjects'[j] = deletedObjects[j]

C19_OtherIdentities == [][C19_OtherIdentitiesStep]_vars

\* C19: RegisterDeleted has removed an identity from the new mapping, which
\* still holds another identity.
C19_Witness ==
    /\ lastOp = "RegisterDeleted"
    /\ lastErr = Nil
    /\ GetID(lastEntity) # ""
    /\ RegisteredAs(theUnit, GetID(lastEntity)) = {}
    /\ DOMAIN newObjects # {}

\* C20: no mapping has the empty string as a key, and every entry is stored
\* under the identity of the entity it holds.
C20_KeysAreIdentities ==
    \A m \in {newObjects, dirtyObjects, deletedObjects} :
        /\ ~HasKey(m, "")
        /\ \A k \in DOMAIN m : GetID(m[k]) = k

\* C20: all identities are registered and RegisterNew was just refused an
\* entity without identity.
C20_Witness ==
    /\ lastOp = "RegisterNew"
    /\ GetID(lastEntity) = ""
    /\ lastErr = ErrNoID(lastEntity)
    /\ Keys(theUnit) = IDs \ {""}

\* The category names of the variants, "removed" standing for "deleted".
CanonicalCategory(c) == IF c = "removed" THEN "deleted" ELSE c

\* The kind of an outcome: success, MissingIdentity, or ConflictingState on
\* a category; "other" for anything else.
Outcome(kind, category) == [kind |-> kind, category |-> category]

\* The outcome kind of an error of the entity variant.
OutcomeOfEntity(err) ==
    IF err = Nil THEN Outcome("success", "none")
    ELSE IF IsMissingIdentity(err) THEN Outcome("MissingIdentity", "none")
    ELSE IF IsConflictingState(err)
    THEN Outcome("ConflictingState",
                 CHOOSE c \in {"new", "dirty", "deleted"} :
                     \E id \in IDs : err = ErrAlreadyRegistered(id, c))
    ELSE Outcome("other", "none")

\* The outcome kind of an error of the variant with inline checks.
OutcomeOfInline(err) ==
    IF err = Nil THEN Outcome("success", "none")
    ELSE IF \E what \in {"new", "removed"}, model \in Entities :
                err = ErrModelNoID(what, model)
    THEN Outcome("MissingIdentity", "none")
    ELSE IF \E what \in {"new", "dirty"}, id \in IDs, c \in {"new", "dirty", "removed"} :
                err = ErrInlineAlreadyRegistered(what, id, c)
    THEN Outcome("ConflictingState",
                 CanonicalCategory(
                     CHOOSE c \in {"new", "dirty", "removed"} :
                         \E what \in {"new", "dirty"}, id \in IDs :
                             err = ErrInlineAlreadyRegistered(what, id, c)))
    ELSE Outcome("other", "none")

\* The outcome kind of an error of the variant with assertModelNotRegisteredAs.
OutcomeOfModel(err) ==
    IF err = Nil THEN Outcome("success", "none")
    ELSE IF \E what \in {"new", "removed"}, model \in Entities :
                err = ErrModelNoID(what, model)
    THEN Outcome("MissingIdentity", "none")
    ELSE IF \E id \in IDs, c \in {"new", "dirty", "removed"} :
                err = ErrModelAlreadyRegistered(id, c)
    THEN Outcome("ConflictingState",
                 CanonicalCategory(
                     CHOOSE c \in {"new", "dirty", "removed"} :
                         \E id \in IDs : err = ErrModelAlreadyRegistered(id, c)))
    ELSE Outcome("other", "none")

\* The three mappings of a registry with a removedObjects field, removed
\* taken as deleted.
AsDeleted(unit) ==
    [newObjects |-> unit.newObjects, dirtyObjects |-> unit.dirtyObjects,
     deletedObjects |-> unit.removedObjects]

\* C13: run side by side on the same calls, the three variants of the
\* registry return the same outcome kind at every step (success,
\* MissingIdentity, ConflictingState on the same category, removed taken as
\* deleted) and hold the same three mappings after every step.
C13_VariantsAgree ==
    /\ AsDeleted(inlineUnit) = theUnit
    /\ AsDeleted(modelUnit) = theUnit
    /\ OutcomeOfInline(inlineErr) = OutcomeOfEntity(lastErr)
    /\ OutcomeOfModel(modelErr) = OutcomeOfEntity(lastErr)
    /\ OutcomeOfEntity(lastErr).kind # "other"

\* C13: RegisterDirty was rejected by all three variants for an identity
\* that is deleted in one and removed in the other two.
C13_Witness ==
    /\ lastOp = "RegisterDirty"
    /\ lastErr = ErrAlreadyRegistered(GetID(lastEntity), "deleted")
    /\ inlineErr = ErrInlineAlreadyRegistered("dirty", GetID(lastEntity), "removed")
    /\ modelErr = ErrModelAlreadyRegistered(GetID(lastEntity), "removed")
    /\ HasKey(inlineUnit.removedObjects, GetID(lastEntity))
    /\ HasKey(modelUnit.removedObjects, GetID(lastEntity))
    /\ DOMAIN inlineUnit.newObjects # {}

\* C21: mutual exclusion of the mappings rests on the callers' mutual
\* exclusion.  As long as no call began while another was under way (each
\* call ran atomically), every identity is in at most one mapping; with
\* calls that interleave, a state with one identity in two mappings is
\* reachable (C21_Witness).
C21_AtomicCallsKeepExclusion ==
    ~overlapped =>
        \A id \in Keys(theUnit) : Cardinality(RegisteredAs(theUnit, id)) <= 1

\* C21: RegisterNew and RegisterDirty of the shared identity interleaved,
\* both returned, the process did not crash, and the identity is in the new
\* and in the dirty mapping at once.
C21_Witness ==
    /\ overlapped
    /\ ~crashed
    /\ \A c \in Callers : pc[c] = "idle"
    /\ HasKey(newObjects, SharedID)
    /\ HasKey(dirtyObjects, SharedID)

\* The fatal outcome of the validation helper.
IsPanic(outcome) == \E r \in RegistryNames : outcome = PanicUnknownRegistry(r)

\* The mapping of the registry that a category name stands for.
RegistryOf(u, registeredAs) ==
    CASE registeredAs = "new" -> u.newObjects
      [] registeredAs = "dirty" -> u.dirtyObjects
      [] registeredAs = "deleted" -> u.deletedObjects

\* C22: the validation helper mutates no mapping; for a category of new,
\* dirty, deleted it returns ConflictingState exactly when the entity's
\* identity is a key of that category's mapping and success otherwise; for
\* any other name it panics instead of returning an error; and no
\* registration operation ever ends in that panic.
C22_ValidationHelperStep ==
    LET id == GetID(lastEntity')
        registeredAs == lastRegisteredAs'
    IN /\ lastOp' = "assertEntityNotRegisteredAs" =>
              /\ maps' = maps
              /\ registeredAs \in {"new", "dirty", "deleted"} =>
                     /\ lastErr' = IF HasKey(RegistryOf(theUnit, registeredAs), id)
                                   THEN ErrAlreadyRegistered(id, registeredAs)
                                   ELSE Nil
                     /\ ~IsPanic(lastErr')
              /\ registeredAs \notin {"new", "dirty", "deleted"} =>
                     /\ lastErr' = PanicUnknownRegistry(registeredAs)
                     /\ IsPanic(lastErr')
                     /\ lastErr' # Nil
                     /\ ~IsConflictingState(lastErr')
                     /\ ~IsMissingIdentity(lastErr')
       /\ lastOp' \in {"RegisterNew", "RegisterDirty", "RegisterDeleted"} =>
              /\ ~IsPanic(lastErr')
              /\ lastErr' = Nil \/ IsMissingIdentity(lastErr') \/ IsConflictingState(lastErr')

C22_ValidationHelper == [][C22_ValidationHelperStep]_vars

\* C22: the helper was called with the unknown name of the test on a
\* registry that holds the entity's identity, and panicked.
C22_Witness ==
    /\ lastOp = "assertEntityNotRegisteredAs"
    /\ lastRegisteredAs = "some-state"
    /\ lastErr = PanicUnknownRegistry("some-state")
    /\ GetID(lastEntity) \in Keys(theUnit)

====
